---- MODULE Spec2Model ----
(***************************************************************************)
(* Model of src/src/app.py: a Dash application holding one session graph   *)
(* (original_graph, layout) and two callbacks,                             *)
(*   update_original_network_plot(relayoutData)                            *)
(*   update_subgraph_plot(clickData)                                       *)
(* both of which build figures with create_network_figure.                 *)
(*                                                                         *)
(* Conventions.  Python lists indexed by a vertex id are functions over    *)
(* 0..n-1 (igraph vertex ids are 0-based); lists that are only appended to *)
(* and iterated (edge lists, edge_x, edge_y, figure data) are sequences.   *)
(* A list cell that may hold a number or Python's None is <<v>> or <<>>.   *)
(*                                                                         *)
(* Randomness.  Erdos_Renyi draws the graph.  Everything random inside one *)
(* callback (layout("fr"), community_multilevel, random.randint) is drawn  *)
(* from the process's random generator, whose state when the callback      *)
(* starts is not known: each callback picks it nondeterministically from   *)
(* 0..MaxDraw, and the library results are functions of that draw.         *)
(***************************************************************************)
EXTENDS Integers, Sequences, FiniteSets, TLC

(* ------------------------------ bounds --------------------------------- *)
\* n of Erdos_Renyi (50 in the source), scaled down
N == 4
\* m of Erdos_Renyi (100 in the source), scaled down
M == 3
\* the states the random generator may be in when a callback (or
\* create_graph) starts: 0..MaxDraw
MaxDraw == 1
\* how far outside [0, n) a click index is tried
MaxOutOfRange == 1

VARIABLES
    original_graph,   \* app.py:120, the module global
    layout,           \* app.py:120, the module global
    response,         \* what the most recent callback gave its caller
    rendered,         \* history: what the callback passed to create_network_figure, if it called it
    startup,          \* history: (original_graph, layout) as create_graph returned them
    prev              \* history: how the current response relates to the one before it

vars == <<original_graph, layout, response, rendered, startup, prev>>

(* ------------------------------ values --------------------------------- *)
None == <<>>
Num(v) == <<v>>

Range(f) == {f[i] : i \in DOMAIN f}

\* Op(v) with v evaluated once (TLC evaluates a LET definition at every use)
Bind(v, Op(_)) == CHOOSE r \in {Op(x) : x \in {v}} : TRUE

Min(S) == CHOOSE v \in S : \A w \in S : v <= w

\* f"Node-{i}"
NodeName(i) == <<"Node-", i>>

\* the random generator's possible states at the start of a call
Draws == 0..MaxDraw

\* random.randint(0, 255), the j-th call (j = 0, 1, ...) since the draw d
ChannelValues == 256

\* mutant: the generator is re-seeded with a fixed seed before the colors are drawn
RandInt_Seeded(d, j) == j % ChannelValues

RandInt(d, j) == (d + j) % ChannelValues

(* ------------------------------ igraph --------------------------------- *)
\* A Graph is [n, name, edges]: vertex ids 0..n-1, the "name" vertex
\* attribute, and the edge list in edge-id order (pairs <<u, v>>).

\* all unordered pairs of distinct vertices: the simple graphs G(n, m) draws from
AllPairs(n) == {e \in (0..(n - 1)) \X (0..(n - 1)) : e[1] < e[2]}

EdgeRank(e, n) == e[1] * n + e[2]

\* the edge list of a generated graph, in increasing (source, target) order
EdgeList(E, n) ==
    [i \in 1..Cardinality(E) |->
        CHOOSE e \in E : Cardinality({f \in E : EdgeRank(f, n) < EdgeRank(e, n)}) = i - 1]

\* ig.Graph.Erdos_Renyi(n, m, directed=False): the possible outcomes
Erdos_Renyi(n, m) ==
    {[n |-> n, name |-> [i \in 0..(n - 1) |-> None], edges |-> EdgeList(E, n)] :
        E \in {S \in SUBSET AllPairs(n) : Cardinality(S) = m}}

\* g.layout("fr"): one 2D point per vertex, distinct points for distinct
\* vertices; the placement depends on the draw
LayoutFR(g, d) == [i \in 0..(g.n - 1) |-> <<i + d, i * (d + 1)>>]

\* g.get_edgelist()
GetEdgelist(g) == g.edges

\* mutant: only the edges leaving a vertex are counted
Degree_Out(g) ==
    [v \in 0..(g.n - 1) |-> Cardinality({i \in 1..Len(g.edges) : g.edges[i][1] = v})]

\* g.degree(): per vertex, the number of edge endpoints at it
Degree(g) ==
    [v \in 0..(g.n - 1) |->
        Cardinality({p \in (1..Len(g.edges)) \X {1, 2} : g.edges[p[1]][p[2]] = v})]

\* vertex ids adjacent to k by one of the edges with index in J
AdjacentVia(g, J, k) ==
    {g.edges[i][2] : i \in {j \in J : g.edges[j][1] = k}}
    \cup {g.edges[i][1] : i \in {j \in J : g.edges[j][2] = k}}

Adjacent(g, k) == AdjacentVia(g, 1..Len(g.edges), k)

\* the elements of a finite set of integers as an increasing sequence
SortedSeq(S) ==
    [i \in 1..Cardinality(S) |-> CHOOSE v \in S : Cardinality({w \in S : w < v}) = i - 1]

\* a vertex id igraph accepts for g
ValidVertex(g, k) == k >= 0 /\ k < g.n

\* mutant: a negative id counts from the end, as in Python indexing
Neighborhood_Wrap(g, k) ==
    IF k >= 0 - g.n /\ k < g.n
    THEN [ok |-> TRUE,
          value |-> <<k % g.n>> \o SortedSeq(Adjacent(g, k % g.n) \ {k % g.n})]
    ELSE [ok |-> FALSE, value |-> <<>>]

\* g.neighborhood(k) with order=1: k itself, then its neighbors.
\* An id outside [0, n) raises igraph's invalid-vertex-id error (ok = FALSE).
Neighborhood(g, k) ==
    IF ValidVertex(g, k)
    THEN [ok |-> TRUE, value |-> <<k>> \o SortedSeq(Adjacent(g, k) \ {k})]
    ELSE [ok |-> FALSE, value |-> <<>>]

\* g.subgraph(vertices): the induced subgraph. Kept vertices are renumbered
\* 0..n'-1 in increasing order of their old id and keep their attributes;
\* kept edges are those with both endpoints kept, in their old order.
NewId(S, v) == Cardinality({w \in S : w < v})

OldId(S, i) == CHOOSE v \in S : NewId(S, v) = i

\* mutant: only the edges at the first vertex given (the clicked one) are kept
Subgraph_Star(g, vertices) ==
    Bind(Range(vertices), LAMBDA S :
    Bind(SelectSeq(g.edges, LAMBDA e : e[1] \in S /\ e[2] \in S /\ vertices[1] \in {e[1], e[2]}),
         LAMBDA kept :
        [n |-> Cardinality(S),
         name |-> [i \in 0..(Cardinality(S) - 1) |-> g.name[OldId(S, i)]],
         edges |-> [j \in 1..Len(kept) |-> <<NewId(S, kept[j][1]), NewId(S, kept[j][2])>>]]))

Subgraph(g, vertices) ==
    Bind(Range(vertices), LAMBDA S :
    Bind(SelectSeq(g.edges, LAMBDA e : e[1] \in S /\ e[2] \in S), LAMBDA kept :
        [n |-> Cardinality(S),
         name |-> [i \in 0..(Cardinality(S) - 1) |-> g.name[OldId(S, i)]],
         edges |-> [j \in 1..Len(kept) |-> <<NewId(S, kept[j][1]), NewId(S, kept[j][2])>>]]))

\* the connected components of g restricted to the edges with index in J,
\* as a set of vertex sets: blocks, after merging along the edges j, j+1, ...
RECURSIVE Components(_, _, _, _)
Components(g, J, j, blocks) ==
    IF j > Len(g.edges) THEN blocks
    ELSE IF j \notin J THEN Components(g, J, j + 1, blocks)
    ELSE Bind({b \in blocks : g.edges[j][1] \in b \/ g.edges[j][2] \in b}, LAMBDA hit :
         Bind((blocks \ hit) \cup {UNION hit}, LAMBDA merged :
             Components(g, J, j + 1, merged)))

\* g.community_multilevel(): the membership vector. Multilevel optimisation
\* only ever moves a vertex into the community of a neighbor, so every
\* community is connected: the result is the set of components left when
\* some edges are taken as running between communities. Which edges those
\* are depends on the draw (edge j is cut iff bit j-1 of d is set).
\* Community ids are numbered by first appearance.
CutEdge(d, j) == (d \div (2 ^ (j - 1))) % 2 = 1

KeptEdges(g, d) == {j \in 1..Len(g.edges) : ~CutEdge(d, j)}

\* community ids by first appearance, given the communities' lowest members
MembershipOf(n, blocks, firsts) ==
    [v \in 0..(n - 1) |->
        Cardinality({r \in firsts : r < Min(CHOOSE b \in blocks : v \in b)})]

community_multilevel(g, d) ==
    Bind(Components(g, KeptEdges(g, d), 1, {{v} : v \in 0..(g.n - 1)}), LAMBDA blocks :
    Bind({Min(b) : b \in blocks}, LAMBDA firsts : MembershipOf(g.n, blocks, firsts)))

\* the VertexClustering as iterated: one vertex list (here set) per community
Clusters(g, membership) ==
    Bind(membership, LAMBDA m :
        [c \in 1..Cardinality(Range(m)) |-> {v \in 0..(g.n - 1) : m[v] = c - 1}])

(* ------------------------------ app.py --------------------------------- *)
\* go.Layout(...) of both create_empty_figure and create_network_figure
HiddenAxis == [showgrid |-> FALSE, zeroline |-> FALSE, showticklabels |-> FALSE]

FigureLayout ==
    [showlegend |-> FALSE, hovermode |-> "closest", margin |-> [b |-> 0, l |-> 0, r |-> 0, t |-> 0],
     xaxis |-> HiddenAxis, yaxis |-> HiddenAxis]

\* create_graph(): the possible (g, layout) pairs
create_graph ==
    {[g |-> [g0 EXCEPT !.name = [i \in 0..(g0.n - 1) |-> NodeName(i)]],
      layout |-> LayoutFR(g0, d)] :
        g0 \in Erdos_Renyi(N, M), d \in Draws}

\* mutant: one figure object is kept and handed out again with the traces last put in it
create_empty_figure_Stale ==
    IF response.handler = "update_subgraph_plot" /\ response.outcome = "figure"
    THEN response.figure[1]
    ELSE [data |-> <<>>, layout |-> FigureLayout]

\* create_empty_figure()
create_empty_figure == [data |-> <<>>, layout |-> FigureLayout]

\* "#{:02x}{:02x}{:02x}".format(randint, randint, randint) for community idx
\* (0-based, as enumerate gives it): the three channel values
CommunityColor(d, idx) == <<RandInt(d, 3 * idx), RandInt(d, 3 * idx + 1), RandInt(d, 3 * idx + 2)>>

\* mutant: the color is drawn inside the inner loop, once per node
CommunityColors_PerNode(communities, d) ==
    [node \in UNION Range(communities) |-> CommunityColor(d, node)]

\* the dict community_colors after the loop over enumerate(communities):
\* the last community that holds a node sets its color
CommunityColors(communities, d) ==
    [node \in UNION Range(communities) |->
        CommunityColor(d, (CHOOSE idx \in DOMAIN communities :
                              /\ node \in communities[idx]
                              /\ \A j \in (idx + 1)..Len(communities) : node \notin communities[j]) - 1)]

\* mutant: no None after an edge, all edges run into one path
EdgeCoords_Joined(edgelist, lay, c) ==
    [i \in 1..(2 * Len(edgelist)) |->
        IF i % 2 = 1 THEN Num(lay[edgelist[(i + 1) \div 2][1]][c])
                     ELSE Num(lay[edgelist[(i + 1) \div 2][2]][c])]

\* edge_x (c = 1) and edge_y (c = 2) after the loop over g.get_edgelist():
\* per edge, the coordinate of its source, of its target, and None
EdgeCoords(edgelist, lay, c) ==
    [i \in 1..(3 * Len(edgelist)) |->
        CASE i % 3 = 1 -> Num(lay[edgelist[(i + 2) \div 3][1]][c])
          [] i % 3 = 2 -> Num(lay[edgelist[(i + 2) \div 3][2]][c])
          [] OTHER -> None]

\* the figure create_network_figure returns, from its locals
NetworkFigure(g, lay, community_colors, node_degrees) ==
    LET node_trace ==
            [x |-> [i \in DOMAIN lay |-> lay[i][1]],
             y |-> [i \in DOMAIN lay |-> lay[i][2]],
             mode |-> "markers+text",
             text |-> [v \in 0..(g.n - 1) |-> g.name[v]],
             color |-> [i \in 0..(g.n - 1) |-> community_colors[i]],
             customdata |-> node_degrees]
        edge_trace ==
            [x |-> EdgeCoords(GetEdgelist(g), lay, 1),
             y |-> EdgeCoords(GetEdgelist(g), lay, 2),
             mode |-> "lines"]
    IN  [data |-> <<edge_trace, node_trace>>, layout |-> FigureLayout]

\* create_network_figure(g, layout), the generator being in state d.
\* ok = FALSE: a community_colors[i] or layout[...] lookup raised.
create_network_figure(g, lay, d) ==
    Bind(Clusters(g, community_multilevel(g, d)), LAMBDA communities :
    Bind(CommunityColors(communities, d), LAMBDA community_colors :
        IF /\ \A i \in 0..(g.n - 1) : i \in DOMAIN community_colors
           /\ \A j \in 1..Len(g.edges) : g.edges[j][1] \in DOMAIN lay /\ g.edges[j][2] \in DOMAIN lay
        THEN [ok |-> TRUE, communities |-> communities,
              fig |-> <<NetworkFigure(g, lay, community_colors, Degree(g))>>]
        ELSE [ok |-> FALSE, communities |-> communities, fig |-> None]))

(* ----------------------------- callbacks ------------------------------- *)
\* what Dash may pass as relayoutData; the callback never reads it
RelayoutData == {"None", "autosize"}

\* clickData: None, or {'points': [{'pointIndex': k}]}
NoClick == [isNone |-> TRUE]

Click(k) == [isNone |-> FALSE, points |-> <<[pointIndex |-> k]>>]

ClickIndices == (0 - MaxOutOfRange)..(N - 1 + MaxOutOfRange)

ClickData == {NoClick} \cup {Click(k) : k \in ClickIndices}

\* A response is what a callback hands back to Dash: outcome "figure" with
\* figure = <<fig>>, or outcome "raise" with figure = None and the error.
NoResponse ==
    [handler |-> "none", input |-> NoClick, outcome |-> "none", figure |-> None, error |-> "none"]

NothingRendered ==
    [g |-> [n |-> 0, name |-> <<>>, edges |-> <<>>], layout |-> <<>>, communities |-> <<>>]

\* the kind of a response, as the history variable records it
Kind(r) ==
    CASE r.outcome = "raise" -> "error"
      [] r.outcome = "none" -> "none"
      [] r.handler = "update_original_network_plot" -> "full"
      [] r.input = NoClick -> "empty"
      [] OTHER -> "subgraph"

\* the marker colors of a returned network figure
NodeColors(r) == r.figure[1].data[2].color

\* the callback returns fig, or lets the exception through. The exception of
\* an invalid vertex id is the error the specification calls InvalidSelection.
Returned(handler, input, fig) ==
    [handler |-> handler, input |-> input, outcome |-> "figure", figure |-> <<fig>>, error |-> "none"]

Raised(handler, input, error) ==
    [handler |-> handler, input |-> input, outcome |-> "raise", figure |-> None, error |-> error]

\* history: "recolored" when this full render gives some node another color
\* than the full render right before it, "subgraph" when the response before
\* was a subgraph figure
History(before, after) ==
    IF /\ Kind(before) = "full"
       /\ Kind(after) = "full"
       /\ NodeColors(before) # NodeColors(after)
    THEN "recolored"
    ELSE IF Kind(before) = "subgraph" THEN "subgraph" ELSE "other"

Init ==
    /\ \E s \in create_graph :
          /\ original_graph = s.g
          /\ layout = s.layout
          /\ startup = s
    /\ response = NoResponse
    /\ rendered = NothingRendered
    /\ prev = "start"

\* mutant: a payload makes the callback lay the graph out again
update_original_network_plot_Relayout(relayoutData) ==
    \E d \in Draws :
    \E lay \in {IF relayoutData = "None" THEN layout ELSE LayoutFR(original_graph, d)} :
    \E built \in {create_network_figure(original_graph, lay, d)} :
    \E r \in {IF built.ok
              THEN Returned("update_original_network_plot", relayoutData, built.fig[1])
              ELSE Raised("update_original_network_plot", relayoutData, "LookupError")} :
            /\ response' = r
            /\ rendered' = [g |-> original_graph, layout |-> lay,
                            communities |-> built.communities]
            /\ prev' = History(response, r)
            /\ UNCHANGED <<original_graph, layout, startup>>

\* update_original_network_plot(relayoutData)
update_original_network_plot(relayoutData) ==
    \E d \in Draws :
    \E built \in {create_network_figure(original_graph, layout, d)} :
    \E r \in {IF built.ok
              THEN Returned("update_original_network_plot", relayoutData, built.fig[1])
              ELSE Raised("update_original_network_plot", relayoutData, "LookupError")} :
            /\ response' = r
            /\ rendered' = [g |-> original_graph, layout |-> layout,
                            communities |-> built.communities]
            /\ prev' = History(response, r)
            /\ UNCHANGED <<original_graph, layout, startup>>

\* the body of update_subgraph_plot(clickData) over the graph it reads:
\* the response and the history, not the globals
SubgraphPlot(clickData, graph) ==
    LET subgraph_figure == create_empty_figure
    IN  IF clickData = NoClick
        THEN /\ response' = Returned("update_subgraph_plot", clickData, subgraph_figure)
             /\ prev' = History(response, response')
             /\ rendered' = NothingRendered
        ELSE LET clicked_node_index == clickData.points[1].pointIndex
             IN  \E neighbors \in {Neighborhood(graph, clicked_node_index)} :
                 IF ~neighbors.ok
                 THEN /\ response' = Raised("update_subgraph_plot", clickData, "InvalidSelection")
                      /\ prev' = History(response, response')
                      /\ rendered' = NothingRendered
                 ELSE \E d \in Draws :
                      \E subgraph \in {Subgraph(graph, neighbors.value)} :
                      \E subgraph_layout \in {LayoutFR(subgraph, d)} :
                      \E built \in {create_network_figure(subgraph, subgraph_layout, d)} :
                      \E r \in {IF built.ok
                                THEN Returned("update_subgraph_plot", clickData, built.fig[1])
                                ELSE Raised("update_subgraph_plot", clickData, "LookupError")} :
                              /\ response' = r
                              /\ rendered' = [g |-> subgraph, layout |-> subgraph_layout,
                                              communities |-> built.communities]
                              /\ prev' = History(response, r)

\* mutant: the neighborhood is cut out of the session graph in place
update_subgraph_plot_InPlace(clickData) ==
    /\ SubgraphPlot(clickData, original_graph)
    /\ original_graph' = IF rendered'.g.n > 0 THEN rendered'.g ELSE original_graph
    /\ UNCHANGED <<layout, startup>>

\* mutant: the index is resolved against the subgraph on display
update_subgraph_plot_Drill(clickData) ==
    /\ SubgraphPlot(clickData, IF Kind(response) = "subgraph" THEN rendered.g ELSE original_graph)
    /\ UNCHANGED <<original_graph, layout, startup>>

\* update_subgraph_plot(clickData)
update_subgraph_plot(clickData) ==
    /\ SubgraphPlot(clickData, original_graph)
    /\ UNCHANGED <<original_graph, layout, startup>>

Next ==
    \/ \E relayoutData \in RelayoutData : update_original_network_plot(relayoutData)
    \/ \E clickData \in ClickData : update_subgraph_plot(clickData)

Spec == Init /\ [][Next]_vars

(* ------------------------------ claims --------------------------------- *)
\* reading a response
FromClick(r) == r.handler = "update_subgraph_plot" /\ r.input # NoClick

ClickIndex(r) == r.input.points[1].pointIndex

IsNetworkFigure(r) == r.outcome = "figure" /\ r.figure[1].data # <<>>

EdgeTrace(r) == r.figure[1].data[1]

NodeTrace(r) == r.figure[1].data[2]

\* reading a figure: the names on its markers, and its segments as pairs of names
SegmentCount(r) == Len(EdgeTrace(r).x) \div 3

MarkerAt(r, x, y) ==
    CHOOSE i \in DOMAIN NodeTrace(r).x : <<NodeTrace(r).x[i]>> = x /\ <<NodeTrace(r).y[i]>> = y

SegmentEnd(r, p) == NodeTrace(r).text[MarkerAt(r, EdgeTrace(r).x[p], EdgeTrace(r).y[p])]

ShownNodes(r) == Range(NodeTrace(r).text)

ShownEdges(r) ==
    {{SegmentEnd(r, 3 * j - 2), SegmentEnd(r, 3 * j - 1)} : j \in 1..SegmentCount(r)}

\* graph theory, stated without the library
Vertices(g) == 0..(g.n - 1)

HasEdge(g, u, v) == \E j \in 1..Len(g.edges) : g.edges[j] = <<u, v>> \/ g.edges[j] = <<v, u>>

ClosedNeighborhood(g, k) == {k} \cup {v \in Vertices(g) : HasEdge(g, k, v)}

InducedEdges(g, S) == {e \in Range(g.edges) : e[1] \in S /\ e[2] \in S}

IncidentEdges(g, v) == Cardinality({j \in 1..Len(g.edges) : v \in {g.edges[j][1], g.edges[j][2]}})

NamesOf(g, S) == {g.name[v] : v \in S}

NamedEdges(g, E) == {{g.name[e[1]], g.name[e[2]]} : e \in E}

\* C1: a click on a valid index k returns a figure whose nodes are exactly the
\* closed 1-hop neighborhood of k in the session graph and whose edges are
\* exactly the session graph's edges with both endpoints in that neighborhood.
C1_NeighborhoodSubgraph ==
    (FromClick(response) /\ ClickIndex(response) \in Vertices(original_graph)) =>
        LET nb == ClosedNeighborhood(original_graph, ClickIndex(response))
            E == InducedEdges(original_graph, nb)
        IN  /\ IsNetworkFigure(response)
            /\ DOMAIN NodeTrace(response).text = 0..(Cardinality(nb) - 1)
            /\ ShownNodes(response) = NamesOf(original_graph, nb)
            /\ SegmentCount(response) = Cardinality(E)
            /\ ShownEdges(response) = NamedEdges(original_graph, E)

\* a click whose neighborhood leaves a node out and holds an edge between two neighbors
C1_Witness ==
    /\ Kind(response) = "subgraph"
    /\ LET k == ClickIndex(response)
           nb == ClosedNeighborhood(original_graph, k)
       IN  /\ nb # Vertices(original_graph)
           /\ original_graph.name[CHOOSE v \in Vertices(original_graph) : v \notin nb]
                 \notin ShownNodes(response)
           /\ \E e \in InducedEdges(original_graph, nb) : k \notin {e[1], e[2]}

\* C2: the session graph (nodes, names, edges) and its layout are what
\* create_graph returned at startup, after any sequence of requests.
C2_SessionUnchanged ==
    /\ original_graph = startup.g
    /\ layout = startup.layout

\* a failing click right after a click that rendered a subgraph
C2_Witness == Kind(response) = "error" /\ prev = "subgraph"

\* C3: a click with an index outside [0, n) raises InvalidSelection to the
\* caller: no figure comes back, and no figure was built for the request.
C3_OutOfRangeRaises ==
    (FromClick(response) /\ ClickIndex(response) \notin Vertices(original_graph)) =>
        /\ response.outcome = "raise"
        /\ response.error = "InvalidSelection"
        /\ response.figure = None
        /\ rendered = NothingRendered

\* a click on a negative index has failed
C3_Witness == Kind(response) = "error" /\ FromClick(response) /\ ClickIndex(response) < 0

\* C4: a click callback with clickData None returns the empty figure (no
\* traces, grid, ticks and zero lines hidden on both axes), whatever came before.
C4_NoClickEmptyFigure ==
    (response.handler = "update_subgraph_plot" /\ response.input = NoClick) =>
        /\ response.outcome = "figure"
        /\ response.figure[1].data = <<>>
        /\ \A axis \in {response.figure[1].layout.xaxis, response.figure[1].layout.yaxis} :
              /\ axis.showgrid = FALSE
              /\ axis.showticklabels = FALSE
              /\ axis.zeroline = FALSE

\* the empty figure right after a subgraph figure
C4_Witness == Kind(response) = "empty" /\ prev = "subgraph"

\* what a click on k gives as the very first event after startup
FirstEvent(k) ==
    LET nb == Neighborhood(startup.g, k)
        sub == Subgraph(startup.g, nb.value)
    IN  IF nb.ok
        THEN Returned("update_subgraph_plot", Click(k),
                      create_network_figure(sub, LayoutFR(sub, 0), 0).fig[1])
        ELSE Raised("update_subgraph_plot", Click(k), "InvalidSelection")

\* C5: whatever came before, a click on k gives the nodes and edges (or the
\* failure) that a click on k gives as the first event after startup.
C5_ResolvedAgainstSession ==
    FromClick(response) =>
        LET first == FirstEvent(ClickIndex(response))
        IN  /\ response.outcome = first.outcome
            /\ response.outcome = "figure" =>
                  /\ ShownNodes(response) = ShownNodes(first)
                  /\ ShownEdges(response) = ShownEdges(first)

\* a subgraph figure right after another subgraph figure
C5_Witness == Kind(response) = "subgraph" /\ prev = "subgraph"

\* C6: the full-graph callback returns, for every payload and at every point,
\* a figure with the stored layout's positions, the session graph's names and
\* degrees, and one segment per session edge between the stored positions.
C6_FullRenderUnchanged ==
    response.handler = "update_original_network_plot" =>
        /\ IsNetworkFigure(response)
        /\ NodeTrace(response).x = [i \in Vertices(startup.g) |-> startup.layout[i][1]]
        /\ NodeTrace(response).y = [i \in Vertices(startup.g) |-> startup.layout[i][2]]
        /\ NodeTrace(response).text = startup.g.name
        /\ NodeTrace(response).customdata =
              [i \in Vertices(startup.g) |-> IncidentEdges(startup.g, i)]
        /\ SegmentCount(response) = Len(startup.g.edges)
        /\ \A j \in 1..Len(startup.g.edges) :
              /\ EdgeTrace(response).x[3 * j - 2] = <<startup.layout[startup.g.edges[j][1]][1]>>
              /\ EdgeTrace(response).y[3 * j - 2] = <<startup.layout[startup.g.edges[j][1]][2]>>
              /\ EdgeTrace(response).x[3 * j - 1] = <<startup.layout[startup.g.edges[j][2]][1]>>
              /\ EdgeTrace(response).y[3 * j - 1] = <<startup.layout[startup.g.edges[j][2]][2]>>

\* a full render with a payload, after a subgraph was shown
C6_Witness == Kind(response) = "full" /\ response.input = "autosize" /\ prev = "subgraph"

\* C7: the degree on the i-th marker is the number of edges at node i in the
\* graph that was rendered (for a subgraph, its degree inside the subgraph).
C7_DegreeOfRenderedGraph ==
    IsNetworkFigure(response) =>
        /\ DOMAIN NodeTrace(response).customdata = Vertices(rendered.g)
        /\ \A i \in Vertices(rendered.g) :
              NodeTrace(response).customdata[i] = IncidentEdges(rendered.g, i)

\* a subgraph figure showing some node with a lower degree than it has in the session graph
C7_Witness ==
    /\ Kind(response) = "subgraph"
    /\ \E i \in Vertices(rendered.g) : \E v \in Vertices(original_graph) :
          /\ original_graph.name[v] = NodeTrace(response).text[i]
          /\ NodeTrace(response).customdata[i] < IncidentEdges(original_graph, v)

\* C8: every node of the rendered graph gets a color (no lookup fails), every
\* node is in exactly one community, and nodes of one community share a color.
C8_OneColorPerCommunity ==
    /\ response.error # "LookupError"
    /\ IsNetworkFigure(response) =>
          /\ DOMAIN NodeTrace(response).color = Vertices(rendered.g)
          /\ \A i \in Vertices(rendered.g) :
                Cardinality({c \in DOMAIN rendered.communities : i \in rendered.communities[c]}) = 1
          /\ \A c \in DOMAIN rendered.communities : \A i \in rendered.communities[c] :
                \A j \in rendered.communities[c] :
                    NodeTrace(response).color[i] = NodeTrace(response).color[j]

\* a figure with two communities, one of them of two nodes or more
C8_Witness ==
    /\ IsNetworkFigure(response)
    /\ Len(rendered.communities) >= 2
    /\ \E c \in DOMAIN rendered.communities : Cardinality(rendered.communities[c]) >= 2

\* C9: colors are not stable across renders: after any full-graph render, the
\* next full-graph render can give some node another color.
C9_ColorsMayChange ==
    Kind(response) = "full" =>
        ENABLED (\E relayoutData \in RelayoutData :
                    update_original_network_plot(relayoutData) /\ prev' = "recolored")

\* two successive full-graph renders that differ in some node's color
C9_Witness == Kind(response) = "full" /\ prev = "recolored"

\* C10: a figure has one coordinate per node of the rendered graph and one
\* segment (source, target, None) per edge, between the coordinates of that
\* figure's own nodes; endpoints are node indices of the rendered graph.
C10_SegmentsOfRenderedGraph ==
    IsNetworkFigure(response) =>
        LET g == rendered.g
        IN  /\ DOMAIN rendered.layout = Vertices(g)
            /\ DOMAIN NodeTrace(response).x = Vertices(g)
            /\ DOMAIN NodeTrace(response).y = Vertices(g)
            /\ Len(EdgeTrace(response).x) = 3 * Len(g.edges)
            /\ Len(EdgeTrace(response).y) = 3 * Len(g.edges)
            /\ \A j \in 1..Len(g.edges) :
                  /\ g.edges[j][1] \in Vertices(g)
                  /\ g.edges[j][2] \in Vertices(g)
                  /\ EdgeTrace(response).x[3 * j - 2] = <<NodeTrace(response).x[g.edges[j][1]]>>
                  /\ EdgeTrace(response).y[3 * j - 2] = <<NodeTrace(response).y[g.edges[j][1]]>>
                  /\ EdgeTrace(response).x[3 * j - 1] = <<NodeTrace(response).x[g.edges[j][2]]>>
                  /\ EdgeTrace(response).y[3 * j - 1] = <<NodeTrace(response).y[g.edges[j][2]]>>
                  /\ EdgeTrace(response).x[3 * j] = None
                  /\ EdgeTrace(response).y[3 * j] = None

\* a subgraph figure of fewer nodes than the session graph, with two edges or more
C10_Witness ==
    /\ Kind(response) = "subgraph"
    /\ rendered.g.n < original_graph.n
    /\ Len(rendered.g.edges) >= 2

====
